---------------------------- MODULE Spec2Model ----------------------------
(***************************************************************************)
(* Model of the on-screen message queue (VideoCommon/OnScreenDisplay.cpp)  *)
(* and of the presenter's window geometry (VideoCommon/Present.cpp).       *)
(*                                                                         *)
(* Specifications:                                                         *)
(*   Spec          the message queue, every operation one atomic step      *)
(*   SpecThreads   the message queue, two threads, s_messages_mutex        *)
(*   SpecLive      the message queue under a clock that keeps running and  *)
(*                 a video thread that keeps drawing (fairness)            *)
(*   SpecWindow    Presenter::SetWindowSize and the state it reads         *)
(*   SpecGeometry  the presenter's rectangle and dimension functions       *)
(*   SpecLayout    Presenter::Initialize, SetBackbuffer and Present, which *)
(*                 call UpdateDrawRectangle                                *)
(***************************************************************************)
EXTENDS Integers, Sequences, FiniteSets, TLC

VARIABLES
    \* ---- OnScreenDisplay.cpp
    s_messages,          \* std::multimap<MessageType, Message>, in iteration order
    MAIN_OSD_MESSAGES,   \* Config::MAIN_OSD_MESSAGES
    last_call,           \* observation: the operation that ran last and its arguments
    erased,              \* observation: the entries the last AddTypedMessage or
                         \* DrawMessages erased
    \* ---- OnScreenDisplay.cpp, threads
    pc,                  \* per thread: where it is in the operation it runs
    s_messages_mutex,    \* owner of s_messages_mutex, or NoThread
    frame,               \* per thread: the operation's arguments and locals
    \* ---- Present.cpp
    g_ActiveConfig,      \* aspect_mode, bCrop, stereo_mode, bWidescreenHack
    vi,                  \* VideoInterface::GetAspectRatio(), g_renderer->IsGameWidescreen()
    m_backbuffer_width,
    m_backbuffer_height,
    m_last_window_request_width,
    m_last_window_request_height,
    host_requests,       \* observation: the calls of Host_RequestRenderWindowSize
    ret,                 \* observation: the last call of a geometry function
    g_gfx,               \* g_gfx->IsHeadless(), g_gfx->GetSurfaceInfo()
    m_onscreen_ui,       \* whether Initialize has made m_onscreen_ui
    m_target_rectangle,
    g_Config,            \* fAspectRatioHackW, fAspectRatioHackH
    aspect_ratio_adjustment  \* g_controller_interface's aspect ratio adjustment

osd_vars == <<s_messages, MAIN_OSD_MESSAGES, last_call, erased>>
thread_vars == <<pc, s_messages_mutex, frame>>
layout_vars == <<g_gfx, m_onscreen_ui, m_target_rectangle, g_Config,
                 aspect_ratio_adjustment>>
presenter_vars == <<g_ActiveConfig, vi, m_backbuffer_width, m_backbuffer_height,
                    m_last_window_request_width, m_last_window_request_height,
                    host_requests, ret, layout_vars>>
vars == <<osd_vars, thread_vars, presenter_vars>>

(***************************************************************************)
(* Bounds of the model.                                                    *)
(***************************************************************************)
\* Most messages the multimap holds at once.
MaxMessages == 2
\* The clock is not advanced while a message is overdue (elapsed - duration)
\* by this many ms: the operations run first.
MaxOverdue == 5000
\* Most calls of Host_RequestRenderWindowSize that are recorded.
MaxRequests == 3

\* Steps by which the clock advances, in ms.
TickSteps == {4999, 5000}
\* Arguments of AddTypedMessage and AddMessage.
Texts == {"t1", "t2"}
UntypedTexts == {"t1"}
Durations == {0, 4999}
Colors == {16776960}

(***************************************************************************)
(* OnScreenDisplay.cpp: the messages.                                      *)
(***************************************************************************)
MESSAGE_DROP_TIME == 5000

\* enum class MessageType, in declaration order: the key order of s_messages.
MessageType == <<"NetPlayPing", "NetPlayBuffer", "Typeless">>
MessageTypes == {MessageType[i] : i \in 1..Len(MessageType)}
TypeOrder(t) == CHOOSE i \in 1..Len(MessageType) : MessageType[i] = t

\* Message(text_, duration_, color_): the timer starts, ever_drawn is false.
\* timer is what timer.ElapsedMs() returns.
Message(text_, duration_, color_) ==
    [text |-> text_, timer |-> 0, duration |-> duration_,
     ever_drawn |-> FALSE, color |-> color_]

\* s64 TimeRemaining() const { return duration - timer.ElapsedMs(); }
TimeRemaining(msg) == msg.duration - msg.timer

\* Mutant of EraseKey: the erase is forgotten.
EraseKey_Forgotten(msgs, type) == msgs

\* s_messages.erase(type): every entry with that key goes.
EraseKey(msgs, type) == SelectSeq(msgs, LAMBDA e : e.type # type)

\* Mutant of Emplace: the new entry takes the place of those of its key.
Emplace_Replacing(msgs, type, msg) ==
    SelectSeq(msgs, LAMBDA e : e.type # type) \o <<[type |-> type] @@ msg>>

\* s_messages.emplace(type, msg): the entry goes after the last entry whose
\* key is not greater (upper bound of the equal range).
Emplace(msgs, type, msg) ==
    LET n == Cardinality({i \in 1..Len(msgs) : TypeOrder(msgs[i].type) <= TypeOrder(type)})
        e == [type |-> type] @@ msg
    IN  SubSeq(msgs, 1, n) \o <<e>> \o SubSeq(msgs, n + 1, Len(msgs))

\* it = s_messages.erase(it): entry number it goes, it then names the next one.
EraseAt(msgs, it) == SubSeq(msgs, 1, it - 1) \o SubSeq(msgs, it + 1, Len(msgs))

\* Mutants of ShouldErase: no grace for a message never drawn; the drop time
\* compared with >; the remaining time compared with <.
ShouldErase_NoGrace(msg, time_left) == time_left <= 0
ShouldErase_DrawnOnly(msg, time_left) == time_left <= 0 /\ msg.ever_drawn
ShouldErase_StrictDrop(msg, time_left) ==
    time_left <= 0 /\ (msg.ever_drawn \/ -time_left > MESSAGE_DROP_TIME)
ShouldErase_StrictExpiry(msg, time_left) ==
    time_left < 0 /\ (msg.ever_drawn \/ -time_left >= MESSAGE_DROP_TIME)

\* The condition of the if of DrawMessages.
ShouldErase(msg, time_left) ==
    time_left <= 0 /\ (msg.ever_drawn \/ -time_left >= MESSAGE_DROP_TIME)

\* A DrawMessage that draws the window and leaves ever_drawn alone.
DrawMessage_Unmarked(msg) == msg

\* DrawMessage(index, msg, position, time_left): the window is drawn (not
\* modelled) and msg.ever_drawn is set.
DrawMessage(msg) == [msg EXCEPT !.ever_drawn = TRUE]

\* One turn of the for loop of DrawMessages on the state st =
\* [msgs, it, erased]: the entry at it is erased, or kept and (with
\* draw_messages) drawn.
DrawIteration(st, draw_messages) ==
    LET msg == st.msgs[st.it]
        time_left == TimeRemaining(msg)
    IN  IF ShouldErase(msg, time_left)
        THEN [msgs |-> EraseAt(st.msgs, st.it), it |-> st.it,
              erased |-> Append(st.erased, msg)]
        ELSE [msgs |-> IF draw_messages
                       THEN [st.msgs EXCEPT ![st.it] = DrawMessage(msg)]
                       ELSE st.msgs,
              it |-> st.it + 1, erased |-> st.erased]

\* The for loop of DrawMessages, from st to it == s_messages.end().
RECURSIVE DrawLoop(_, _)
DrawLoop(st, draw_messages) ==
    IF st.it > Len(st.msgs) THEN st
    ELSE DrawLoop(DrawIteration(st, draw_messages), draw_messages)

NoArgs == [type |-> "-", text |-> "-"]

TypeOK_OSD ==
    /\ MAIN_OSD_MESSAGES \in BOOLEAN
    /\ Len(s_messages) <= MaxMessages
    /\ \A i \in 1..Len(s_messages) :
          /\ s_messages[i].type \in MessageTypes
          /\ s_messages[i].timer \in 0..(s_messages[i].duration + MaxOverdue)

InitOSD ==
    /\ s_messages = <<>>
    /\ MAIN_OSD_MESSAGES \in BOOLEAN
    /\ last_call = [op |-> "none", args |-> NoArgs]
    /\ erased = <<>>

\* void AddTypedMessage(MessageType type, std::string message, u32 ms, u32 argb)
AddTypedMessage(type, message, ms, argb) ==
    LET after_erase == EraseKey(s_messages, type)
    IN  /\ Len(after_erase) < MaxMessages
        /\ s_messages' = Emplace(after_erase, type, Message(message, ms, argb))
        /\ last_call' = [op |-> "AddTypedMessage",
                         args |-> [type |-> type, text |-> message]]
        /\ erased' = SelectSeq(s_messages, LAMBDA e : e.type = type)
        /\ UNCHANGED MAIN_OSD_MESSAGES

\* void AddMessage(std::string message, u32 ms, u32 argb)
AddMessage(message, ms, argb) ==
    /\ Len(s_messages) < MaxMessages
    /\ s_messages' = Emplace(s_messages, "Typeless", Message(message, ms, argb))
    /\ last_call' = [op |-> "AddMessage", args |-> NoArgs]
    /\ erased' = <<>>
    /\ UNCHANGED MAIN_OSD_MESSAGES

\* void DrawMessages()
DrawMessages ==
    LET draw_messages == MAIN_OSD_MESSAGES
        done == DrawLoop([msgs |-> s_messages, it |-> 1, erased |-> <<>>], draw_messages)
    IN  /\ s_messages' = done.msgs
        /\ erased' = done.erased
        /\ last_call' = [op |-> "DrawMessages", args |-> NoArgs]
        /\ UNCHANGED MAIN_OSD_MESSAGES

\* void ClearMessages()
ClearMessages ==
    /\ s_messages' = <<>>
    /\ last_call' = [op |-> "ClearMessages", args |-> NoArgs]
    /\ erased' = <<>>
    /\ UNCHANGED MAIN_OSD_MESSAGES

\* The steady clock every Message::timer reads advances by d ms.
Tick(d) ==
    /\ s_messages # <<>>
    /\ \A i \in 1..Len(s_messages) :
          s_messages[i].timer + d <= s_messages[i].duration + MaxOverdue
    /\ s_messages' = [i \in 1..Len(s_messages) |->
                        [s_messages[i] EXCEPT !.timer = @ + d]]
    /\ last_call' = [op |-> "Tick", args |-> NoArgs]
    /\ erased' = <<>>
    /\ UNCHANGED MAIN_OSD_MESSAGES

\* The steady clock advances by d ms, without end.  A timer is not counted
\* beyond duration + MaxOverdue: from there on the message is overdue by
\* MESSAGE_DROP_TIME or more whatever the clock reads.
Elapse(d) ==
    /\ s_messages # <<>>
    /\ s_messages' = [i \in 1..Len(s_messages) |->
                        LET msg == s_messages[i]
                            most == msg.duration + MaxOverdue
                        IN  [msg EXCEPT !.timer = IF @ + d < most THEN @ + d ELSE most]]
    /\ last_call' = [op |-> "Tick", args |-> NoArgs]
    /\ erased' = <<>>
    /\ UNCHANGED MAIN_OSD_MESSAGES

\* The user switches on-screen messages on or off: what
\* Config::Get(Config::MAIN_OSD_MESSAGES) returns changes (SpecThreads; under
\* Spec the setting is either value from the start).
SetOSDMessages(on) ==
    /\ MAIN_OSD_MESSAGES # on
    /\ MAIN_OSD_MESSAGES' = on
    /\ last_call' = [op |-> "SetOSDMessages", args |-> NoArgs]
    /\ erased' = <<>>
    /\ UNCHANGED s_messages

(***************************************************************************)
(* OnScreenDisplay.cpp with its threads: each operation is a call, the     *)
(* std::lock_guard on s_messages_mutex, its statements one by one, and the *)
(* release of the mutex at the end of the scope.                           *)
(***************************************************************************)
\* The emulation (CPU) thread that reports status, and the video thread.
Threads == {"cpu", "video"}
NoThread == "none"
\* Arguments the threads pass.
ThreadTexts == {"t1"}

IdleFrame == [op |-> "none", type |-> "-", message |-> "-", ms |-> 0, argb |-> 0,
              draw_messages |-> FALSE, it |-> 0, at_lock |-> <<>>]

\* Calls of AddTypedMessage and AddMessage that have not emplaced yet.
PendingAdds ==
    Cardinality({t \in Threads : pc[t] \in {"lock", "erase", "emplace"}})

InitThreads ==
    /\ pc = [t \in Threads |-> "idle"]
    /\ s_messages_mutex = NoThread
    /\ frame = [t \in Threads |-> IdleFrame]

\* Thread t calls AddTypedMessage(type, message, ms, argb).
CallAddTypedMessage(t, type, message, ms, argb) ==
    /\ pc[t] = "idle"
    /\ Len(s_messages) + PendingAdds < MaxMessages
    /\ frame' = [frame EXCEPT ![t] = [IdleFrame EXCEPT !.op = "AddTypedMessage",
                    !.type = type, !.message = message, !.ms = ms, !.argb = argb]]
    /\ pc' = [pc EXCEPT ![t] = "lock"]
    /\ UNCHANGED <<s_messages, s_messages_mutex>>

\* Thread t calls AddMessage(message, ms, argb).
CallAddMessage(t, message, ms, argb) ==
    /\ pc[t] = "idle"
    /\ Len(s_messages) + PendingAdds < MaxMessages
    /\ frame' = [frame EXCEPT ![t] = [IdleFrame EXCEPT !.op = "AddMessage",
                    !.type = "Typeless", !.message = message, !.ms = ms, !.argb = argb]]
    /\ pc' = [pc EXCEPT ![t] = "lock"]
    /\ UNCHANGED <<s_messages, s_messages_mutex>>

\* Thread t calls DrawMessages(): draw_messages is read before the lock.
CallDrawMessages(t) ==
    /\ pc[t] = "idle"
    /\ frame' = [frame EXCEPT ![t] = [IdleFrame EXCEPT !.op = "DrawMessages",
                    !.draw_messages = MAIN_OSD_MESSAGES]]
    /\ pc' = [pc EXCEPT ![t] = "lock_draw"]
    /\ UNCHANGED <<s_messages, s_messages_mutex>>

\* Thread t calls ClearMessages().
CallClearMessages(t) ==
    /\ pc[t] = "idle"
    /\ frame' = [frame EXCEPT ![t] = [IdleFrame EXCEPT !.op = "ClearMessages"]]
    /\ pc' = [pc EXCEPT ![t] = "lock_clear"]
    /\ UNCHANGED <<s_messages, s_messages_mutex>>

\* Mutant of MutexAvailable: the lock is taken whoever holds it.
MutexAvailable_Always(t) == TRUE

\* std::mutex::lock() returns only when no thread owns the mutex.
MutexAvailable(t) == s_messages_mutex = NoThread

\* std::lock_guard lock{s_messages_mutex}; the statement after it is next.
\* at_lock (observation) is s_messages as the thread found it.
Lock(t) ==
    /\ pc[t] \in {"lock", "lock_draw", "lock_clear"}
    /\ MutexAvailable(t)
    /\ s_messages_mutex' = t
    /\ pc' = [pc EXCEPT ![t] =
                 CASE frame[t].op = "AddTypedMessage" -> "erase"
                   [] frame[t].op = "AddMessage" -> "emplace"
                   [] frame[t].op = "DrawMessages" -> "loop"
                   [] OTHER -> "clear"]
    /\ frame' = [frame EXCEPT ![t].it = 1, ![t].at_lock = s_messages]
    /\ UNCHANGED s_messages

\* AddTypedMessage: s_messages.erase(type);
EraseStatement(t) ==
    /\ pc[t] = "erase"
    /\ s_messages' = EraseKey(s_messages, frame[t].type)
    /\ pc' = [pc EXCEPT ![t] = "emplace"]
    /\ UNCHANGED <<s_messages_mutex, frame>>

\* AddTypedMessage, AddMessage: s_messages.emplace(type, Message(...));
EmplaceStatement(t) ==
    /\ pc[t] = "emplace"
    /\ s_messages' = Emplace(s_messages, frame[t].type,
                             Message(frame[t].message, frame[t].ms, frame[t].argb))
    /\ pc' = [pc EXCEPT ![t] = "unlock"]
    /\ UNCHANGED <<s_messages_mutex, frame>>

\* DrawMessages: one turn of the for loop, or its end.
LoopStatement(t) ==
    /\ pc[t] = "loop"
    /\ IF frame[t].it > Len(s_messages)
       THEN /\ pc' = [pc EXCEPT ![t] = "unlock"]
            /\ UNCHANGED <<s_messages, frame>>
       ELSE LET st == DrawIteration([msgs |-> s_messages, it |-> frame[t].it,
                                     erased |-> <<>>], frame[t].draw_messages)
            IN  /\ s_messages' = st.msgs
                /\ frame' = [frame EXCEPT ![t].it = st.it]
                /\ UNCHANGED pc
    /\ UNCHANGED s_messages_mutex

\* ClearMessages: s_messages.clear();
ClearStatement(t) ==
    /\ pc[t] = "clear"
    /\ s_messages' = <<>>
    /\ pc' = [pc EXCEPT ![t] = "unlock"]
    /\ UNCHANGED <<s_messages_mutex, frame>>

\* The end of the scope of the lock_guard: the mutex is released and the
\* operation returns.
Unlock(t) ==
    /\ pc[t] = "unlock"
    /\ s_messages_mutex' = NoThread
    /\ pc' = [pc EXCEPT ![t] = "idle"]
    /\ frame' = [frame EXCEPT ![t] = IdleFrame]
    /\ UNCHANGED s_messages

NextThreads ==
    \/ \E t \in Threads, type \in MessageTypes, message \in ThreadTexts,
          ms \in Durations, argb \in Colors :
          /\ CallAddTypedMessage(t, type, message, ms, argb)
          /\ UNCHANGED <<MAIN_OSD_MESSAGES, last_call, erased, presenter_vars>>
    \/ \E t \in Threads, message \in ThreadTexts, ms \in Durations, argb \in Colors :
          /\ CallAddMessage(t, message, ms, argb)
          /\ UNCHANGED <<MAIN_OSD_MESSAGES, last_call, erased, presenter_vars>>
    \/ \E t \in Threads : CallDrawMessages(t)
          /\ UNCHANGED <<MAIN_OSD_MESSAGES, last_call, erased, presenter_vars>>
    \/ \E t \in Threads : CallClearMessages(t)
          /\ UNCHANGED <<MAIN_OSD_MESSAGES, last_call, erased, presenter_vars>>
    \/ \E t \in Threads : Lock(t)
          /\ UNCHANGED <<MAIN_OSD_MESSAGES, last_call, erased, presenter_vars>>
    \/ \E t \in Threads : EraseStatement(t)
          /\ UNCHANGED <<MAIN_OSD_MESSAGES, last_call, erased, presenter_vars>>
    \/ \E t \in Threads : EmplaceStatement(t)
          /\ UNCHANGED <<MAIN_OSD_MESSAGES, last_call, erased, presenter_vars>>
    \/ \E t \in Threads : LoopStatement(t)
          /\ UNCHANGED <<MAIN_OSD_MESSAGES, last_call, erased, presenter_vars>>
    \/ \E t \in Threads : ClearStatement(t)
          /\ UNCHANGED <<MAIN_OSD_MESSAGES, last_call, erased, presenter_vars>>
    \/ \E t \in Threads : Unlock(t)
          /\ UNCHANGED <<MAIN_OSD_MESSAGES, last_call, erased, presenter_vars>>
    \/ \E on \in BOOLEAN : SetOSDMessages(on) /\ UNCHANGED <<thread_vars, presenter_vars>>

(***************************************************************************)
(* Present.cpp.  A float is [k |-> "fin", n, d] (the rational n/d, d > 0), *)
(* [k |-> "inf", n, d |-> 0] (n the sign) or [k |-> "nan"]: the IEEE       *)
(* results of dividing by zero are kept, the rounding of binary32 is not   *)
(* (a finite result is the exact rational).                                *)
(***************************************************************************)
Fin(n, d) == [k |-> "fin", n |-> n, d |-> d]
Inf(sign) == [k |-> "inf", n |-> sign, d |-> 0]
NaN == [k |-> "nan", n |-> 0, d |-> 0]
Sign(i) == IF i < 0 THEN -1 ELSE 1
Abs(i) == IF i < 0 THEN -i ELSE i

\* static_cast<float>(i)
ToFloat(i) == Fin(i, 1)

\* a / b on floats.
FDiv(a, b) ==
    CASE a.k = "nan" \/ b.k = "nan" -> NaN
      [] a.k = "fin" /\ b.k = "fin" ->
            IF b.n = 0 THEN (IF a.n = 0 THEN NaN ELSE Inf(Sign(a.n)))
            ELSE Fin(a.n * b.d * Sign(b.n), a.d * Abs(b.n))
      [] a.k = "inf" /\ b.k = "fin" -> Inf(a.n * Sign(b.n))
      [] a.k = "fin" /\ b.k = "inf" -> Fin(0, 1)
      [] OTHER -> NaN

\* a * b on floats.
FMul(a, b) ==
    CASE a.k = "nan" \/ b.k = "nan" -> NaN
      [] a.k = "fin" /\ b.k = "fin" -> Fin(a.n * b.n, a.d * b.d)
      [] a.k = "inf" /\ b.k = "inf" -> Inf(a.n * b.n)
      [] a.k = "inf" -> IF b.n = 0 THEN NaN ELSE Inf(a.n * Sign(b.n))
      [] OTHER -> IF a.n = 0 THEN NaN ELSE Inf(b.n * Sign(a.n))

\* a < b on floats: false when either is a NaN.
FLess(a, b) ==
    CASE a.k = "nan" \/ b.k = "nan" -> FALSE
      [] a.k = "fin" /\ b.k = "fin" -> a.n * b.d < b.n * a.d
      [] a.k = "inf" /\ b.k = "inf" -> a.n < b.n
      [] a.k = "inf" -> a.n < 0
      [] OTHER -> b.n > 0
FGreater(a, b) == FLess(b, a)
FGeq(a, b) == a.k # "nan" /\ b.k # "nan" /\ ~FLess(a, b)

\* a / b and a % b on ints, as C++ computes them for b > 0: the quotient is
\* truncated towards zero and the remainder has the sign of a.
CDiv(a, b) == IF a >= 0 THEN a \div b ELSE -((-a) \div b)
CRem(a, b) == IF a % b = 0 THEN 0 ELSE IF a >= 0 THEN a % b ELSE (a % b) - b

\* std::ceil
FCeil(a) == IF a.k = "fin" THEN Fin(-((-a.n) \div a.d), 1) ELSE a

INT_MAX == 2147483647
INT_MIN == -INT_MAX - 1

\* static_cast<int>(a).  Of a NaN or an infinity the behaviour is undefined:
\* the builds give INT_MIN (x86: the integer indefinite) or saturate (ARM:
\* INT_MAX for +inf, 0 for a NaN).
CastInt(a) ==
    CASE a.k = "fin" -> {CDiv(a.n, a.d)}
      [] a.k = "nan" -> {INT_MIN, 0}
      [] OTHER -> IF a.n > 0 THEN {INT_MIN, INT_MAX} ELSE {INT_MIN}

\* MathUtil::Rectangle<int>
Rect(l, t, r, b) == [left |-> l, top |-> t, right |-> r, bottom |-> b]
GetWidth(rc) == Abs(rc.right - rc.left)
GetHeight(rc) == Abs(rc.bottom - rc.top)

\* enum class AspectMode and enum class StereoMode (the modes the code tells apart).
AspectModes == {"Auto", "AnalogWide", "Analog", "Stretch"}
StereoModes == {"Off", "SBS", "TAB"}
\* What VideoInterface::GetAspectRatio() returns.
AspectRatios == {Fin(4, 3), Fin(3, 2)}
\* Sizes of the backbuffer: 0 before the first SetBackbuffer.
BackbufferWidths == {0, 640}
BackbufferHeights == {0, 400}
\* Sizes asked of SetWindowSize and CalculateOutputDimensions.
RequestWidths == {-5, 0, 1, 640}
RequestHeights == {0, 1, 480, 528}

NoCall == [fn |-> "none"]

\* The members UpdateDrawRectangle writes, as constructed, and the graphics
\* backend: headless, or with a surface of the given size.
InitLayoutVars(headless, surface) ==
    /\ g_gfx = [headless |-> headless, surface |-> surface]
    /\ m_onscreen_ui = FALSE
    /\ m_target_rectangle = Rect(0, 0, 0, 0)
    /\ g_Config = [fAspectRatioHackW |-> Fin(1, 1), fAspectRatioHackH |-> Fin(1, 1)]
    /\ aspect_ratio_adjustment = Fin(1, 1)

\* The presenter as constructed: the members' default initialisers.
InitPresenter ==
    /\ InitLayoutVars(TRUE, <<0, 0>>)
    /\ g_ActiveConfig = [aspect_mode |-> "Auto", bCrop |-> FALSE, stereo_mode |-> "Off",
                         bWidescreenHack |-> FALSE]
    /\ vi = [aspect_ratio |-> Fin(4, 3), widescreen |-> FALSE]
    /\ m_backbuffer_width = 0
    /\ m_backbuffer_height = 0
    /\ m_last_window_request_width = 0
    /\ m_last_window_request_height = 0
    /\ host_requests = <<>>
    /\ ret = NoCall

\* The presenter as constructed, with any configuration, any game and any
\* backbuffer.
InitAnyPresenter ==
    /\ InitLayoutVars(TRUE, <<0, 0>>)
    /\ g_ActiveConfig \in [aspect_mode : AspectModes, bCrop : BOOLEAN,
                           stereo_mode : StereoModes, bWidescreenHack : {FALSE}]
    /\ vi \in [aspect_ratio : AspectRatios, widescreen : BOOLEAN]
    /\ m_backbuffer_width \in BackbufferWidths
    /\ m_backbuffer_height \in BackbufferHeights
    /\ m_last_window_request_width = 0
    /\ m_last_window_request_height = 0
    /\ host_requests = <<>>
    /\ ret = NoCall

\* static float AspectToWidescreen(float aspect)
AspectToWidescreen(aspect) == FMul(aspect, FDiv(Fin(16, 9), Fin(4, 3)))

\* The condition both CalculateDrawAspectRatio and ApplyStandardAspectCrop test.
IsWide ==
    \/ g_ActiveConfig.aspect_mode = "AnalogWide"
    \/ g_ActiveConfig.aspect_mode = "Auto" /\ vi.widescreen

\* float Presenter::CalculateDrawAspectRatio() const
CalculateDrawAspectRatio ==
    IF g_ActiveConfig.aspect_mode = "Stretch"
    THEN FDiv(ToFloat(m_backbuffer_width), ToFloat(m_backbuffer_height))
    ELSE IF IsWide THEN AspectToWidescreen(vi.aspect_ratio) ELSE vi.aspect_ratio

\* std::tuple<float, float> Presenter::ApplyStandardAspectCrop(float width, float height) const
ApplyStandardAspectCrop(width, height) ==
    IF ~g_ActiveConfig.bCrop \/ g_ActiveConfig.aspect_mode = "Stretch"
    THEN <<width, height>>
    ELSE LET current_aspect == FDiv(width, height)
             expected_aspect == IF IsWide THEN Fin(16, 9) ELSE Fin(4, 3)
         IN  IF FGreater(current_aspect, expected_aspect)
             THEN <<FMul(height, expected_aspect), height>>
             ELSE <<width, FDiv(width, expected_aspect)>>

\* std::tuple<float, float> Presenter::ScaleToDisplayAspectRatio(int width, int height) const
ScaleToDisplayAspectRatio(width, height) ==
    LET scaled_width == ToFloat(width)
        scaled_height == ToFloat(height)
        draw_aspect == CalculateDrawAspectRatio
    IN  IF FGeq(FDiv(scaled_width, scaled_height), draw_aspect)
        THEN <<scaled_width, FDiv(scaled_width, draw_aspect)>>
        ELSE <<FMul(scaled_height, draw_aspect), scaled_height>>

\* Mutant of RoundDownTo4: rounded to a multiple of 2.
RoundDownTo4_Two(i) == i - CRem(i, 2)

\* width -= width % 4;
RoundDownTo4(i) == i - CRem(i, 4)

\* std::tuple<int, int> Presenter::CalculateOutputDimensions(int width, int height) const:
\* the results the builds can return.
CalculateOutputDimensions(width, height) ==
    LET w1 == IF width > 1 THEN width ELSE 1
        h1 == IF height > 1 THEN height ELSE 1
        scaled == ScaleToDisplayAspectRatio(w1, h1)
        cropped == ApplyStandardAspectCrop(scaled[1], scaled[2])
    IN  {<<RoundDownTo4(w), RoundDownTo4(h)>> :
            w \in CastInt(FCeil(cropped[1])), h \in CastInt(FCeil(cropped[2]))}

\* Mutant of SameAsLastRequest: the comparison is forgotten.
SameAsLastRequest_Never(out) == FALSE

\* out_width == m_last_window_request_width && out_height == m_last_window_request_height
SameAsLastRequest(out) ==
    out[1] = m_last_window_request_width /\ out[2] = m_last_window_request_height

\* void Presenter::SetWindowSize(int width, int height).  host_requests
\* records the calls of Host_RequestRenderWindowSize.
SetWindowSize(width, height) ==
    /\ Len(host_requests) < MaxRequests
    /\ \E out \in CalculateOutputDimensions(width, height) :
          IF SameAsLastRequest(out)
          THEN /\ ret' = [fn |-> "SetWindowSize", out |-> out, forwarded |-> FALSE]
               /\ UNCHANGED <<m_last_window_request_width,
                              m_last_window_request_height, host_requests>>
          ELSE /\ m_last_window_request_width' = out[1]
               /\ m_last_window_request_height' = out[2]
               /\ host_requests' = Append(host_requests, out)
               /\ ret' = [fn |-> "SetWindowSize", out |-> out, forwarded |-> TRUE]
    /\ UNCHANGED <<g_ActiveConfig, vi, m_backbuffer_width, m_backbuffer_height,
                   layout_vars>>

presenter_state == <<g_ActiveConfig, vi, m_backbuffer_width, m_backbuffer_height,
                     m_last_window_request_width, m_last_window_request_height,
                     host_requests, layout_vars>>

\* A call of CalculateOutputDimensions(width, height).
CallCalculateOutputDimensions(width, height) ==
    /\ \E out \in CalculateOutputDimensions(width, height) :
          ret' = [fn |-> "CalculateOutputDimensions",
                  width |-> width, height |-> height, out |-> out]
    /\ UNCHANGED presenter_state

\* AdjustRectanglesToFitBounds: if (target_rect->left < 0) {...} on
\* st = [target, source].
ClampLeft(st, orig_source_width, orig_target_width) ==
    IF st.target.left < 0
    THEN LET offset == -st.target.left
         IN  [target |-> [st.target EXCEPT !.left = 0],
              source |-> [st.source EXCEPT
                             !.left = @ + CDiv(offset * orig_source_width, orig_target_width)]]
    ELSE st

\* Mutant of ClampRight: the extents are measured after the left side was clamped.
ClampRight_CurrentExtents(st, fb_width, orig_source_width, orig_target_width) ==
    IF st.target.right > fb_width
    THEN LET offset == st.target.right - fb_width
         IN  [target |-> [st.target EXCEPT !.right = @ - offset],
              source |-> [st.source EXCEPT
                             !.right = @ - CDiv(offset * GetWidth(st.source),
                                                GetWidth(st.target))]]
    ELSE st

\* AdjustRectanglesToFitBounds: if (target_rect->right > fb_width) {...}
ClampRight(st, fb_width, orig_source_width, orig_target_width) ==
    IF st.target.right > fb_width
    THEN LET offset == st.target.right - fb_width
         IN  [target |-> [st.target EXCEPT !.right = @ - offset],
              source |-> [st.source EXCEPT
                             !.right = @ - CDiv(offset * orig_source_width, orig_target_width)]]
    ELSE st

\* AdjustRectanglesToFitBounds: if (target_rect->top < 0) {...}
ClampTop(st, orig_source_height, orig_target_height) ==
    IF st.target.top < 0
    THEN LET offset == -st.target.top
         IN  [target |-> [st.target EXCEPT !.top = 0],
              source |-> [st.source EXCEPT
                             !.top = @ + CDiv(offset * orig_source_height, orig_target_height)]]
    ELSE st

\* AdjustRectanglesToFitBounds: if (target_rect->bottom > fb_height) {...}
ClampBottom(st, fb_height, orig_source_height, orig_target_height) ==
    IF st.target.bottom > fb_height
    THEN LET offset == st.target.bottom - fb_height
         IN  [target |-> [st.target EXCEPT !.bottom = @ - offset],
              source |-> [st.source EXCEPT
                             !.bottom = @ - CDiv(offset * orig_source_height, orig_target_height)]]
    ELSE st

\* void Presenter::AdjustRectanglesToFitBounds(target_rect, source_rect, fb_width, fb_height):
\* the two rectangles as it leaves them.
AdjustRectanglesToFitBounds(target_rect, source_rect, fb_width, fb_height) ==
    LET orig_target_width == GetWidth(target_rect)
        orig_target_height == GetHeight(target_rect)
        orig_source_width == GetWidth(source_rect)
        orig_source_height == GetHeight(source_rect)
        s0 == [target |-> target_rect, source |-> source_rect]
        s1 == ClampLeft(s0, orig_source_width, orig_target_width)
        s2 == ClampRight(s1, fb_width, orig_source_width, orig_target_width)
        s3 == ClampTop(s2, orig_source_height, orig_target_height)
    IN  ClampBottom(s3, fb_height, orig_source_height, orig_target_height)

\* Mutant of StereoOffset: half the backbuffer instead of a quarter.
StereoOffset_Half(backbuffer_extent) == CDiv(backbuffer_extent, 2)

\* m_backbuffer_height / 4, m_backbuffer_width / 4
StereoOffset(backbuffer_extent) == CDiv(backbuffer_extent, 4)

\* std::tuple<Rectangle<int>, Rectangle<int>>
\* Presenter::ConvertStereoRectangle(const Rectangle<int>& rc) const
ConvertStereoRectangle(rc) ==
    LET height == rc.bottom - rc.top
        width == rc.right - rc.left
        draw_rc == IF g_ActiveConfig.stereo_mode = "TAB"
                   THEN [rc EXCEPT !.top = @ + CDiv(height, 4),
                                   !.bottom = @ - CDiv(height, 4)]
                   ELSE [rc EXCEPT !.left = @ + CDiv(width, 4),
                                   !.right = @ - CDiv(width, 4)]
        left_rc == IF g_ActiveConfig.stereo_mode = "TAB"
                   THEN [draw_rc EXCEPT !.top = @ - StereoOffset(m_backbuffer_height),
                                        !.bottom = @ - StereoOffset(m_backbuffer_height)]
                   ELSE [draw_rc EXCEPT !.left = @ - StereoOffset(m_backbuffer_width),
                                        !.right = @ - StereoOffset(m_backbuffer_width)]
        right_rc == IF g_ActiveConfig.stereo_mode = "TAB"
                    THEN [draw_rc EXCEPT !.top = @ + StereoOffset(m_backbuffer_height),
                                         !.bottom = @ + StereoOffset(m_backbuffer_height)]
                    ELSE [draw_rc EXCEPT !.left = @ + StereoOffset(m_backbuffer_width),
                                         !.right = @ + StereoOffset(m_backbuffer_width)]
    IN  <<left_rc, right_rc>>

\* Rectangles passed to AdjustRectanglesToFitBounds and ConvertStereoRectangle.
TargetRects == {Rect(-10, 0, 100, 50), Rect(-10, -20, 220, 230), Rect(0, 0, 200, 200),
                Rect(40, -30, 120, 260), Rect(150, 10, 330, 90), Rect(-7, 190, 13, 207)}
SourceRects == {Rect(0, 0, 110, 50), Rect(0, 0, 640, 480), Rect(8, 4, 328, 244)}
FramebufferSizes == {<<200, 200>>, <<100, 40>>}
StereoRects == {Rect(0, 0, 640, 400), Rect(0, 25, 640, 375), Rect(3, 7, 633, 391),
                Rect(0, 400, 640, 0), Rect(637, 2, 10, 397)}

\* A call of AdjustRectanglesToFitBounds(&target, &source, fb_width, fb_height).
CallAdjustRectanglesToFitBounds(target, source, fb_width, fb_height) ==
    /\ ret' = [fn |-> "AdjustRectanglesToFitBounds",
               target |-> target, source |-> source,
               fb_width |-> fb_width, fb_height |-> fb_height,
               out |-> AdjustRectanglesToFitBounds(target, source, fb_width, fb_height)]
    /\ UNCHANGED presenter_state

\* A call of ConvertStereoRectangle(rc).
CallConvertStereoRectangle(rc) ==
    /\ ret' = [fn |-> "ConvertStereoRectangle", rc |-> rc,
               out |-> ConvertStereoRectangle(rc)]
    /\ UNCHANGED presenter_state

NextWindow ==
    \E width \in RequestWidths, height \in RequestHeights :
        SetWindowSize(width, height) /\ UNCHANGED <<osd_vars, thread_vars>>

NextGeometry ==
    \/ \E width \in RequestWidths, height \in RequestHeights :
          CallCalculateOutputDimensions(width, height) /\ UNCHANGED <<osd_vars, thread_vars>>
    \/ \E target \in TargetRects, source \in SourceRects, fb \in FramebufferSizes :
          /\ CallAdjustRectanglesToFitBounds(target, source, fb[1], fb[2])
          /\ UNCHANGED <<osd_vars, thread_vars>>
    \/ \E rc \in StereoRects :
          CallConvertStereoRectangle(rc) /\ UNCHANGED <<osd_vars, thread_vars>>


(***************************************************************************)
(* Present.cpp: the draw rectangle.                                        *)
(***************************************************************************)
\* a - b on floats.
FSub(a, b) ==
    CASE a.k = "nan" \/ b.k = "nan" -> NaN
      [] a.k = "fin" /\ b.k = "fin" -> Fin(a.n * b.d - b.n * a.d, a.d * b.d)
      [] a.k = "inf" /\ b.k = "inf" -> IF a.n = b.n THEN NaN ELSE a
      [] a.k = "inf" -> a
      [] OTHER -> Inf(-b.n)

\* std::round: to the nearest integer, halfway cases away from zero.
FRound(a) ==
    IF a.k # "fin" THEN a
    ELSE Fin(Sign(a.n) * ((2 * Abs(a.n) + a.d) \div (2 * a.d)), 1)

\* a + b on ints.  Beyond the range of int the behaviour is undefined; the
\* builds add in two's complement.
IntAdd(a, b) ==
    CASE a < 0 /\ b < 0 /\ a < INT_MIN - b -> (a - INT_MIN) + (b - INT_MIN)
      [] a > 0 /\ b > 0 /\ a > INT_MAX - b -> (a - INT_MAX - 1) + (b - INT_MAX - 1)
      [] OTHER -> a + b

\* A division the code performs: the line it is on and the value of its
\* divisor.
Division(line, divisor) == [line |-> line, divisor |-> divisor]
IsZero(a) == a.k = "fin" /\ a.n = 0

\* The divisions of CalculateDrawAspectRatio whose divisor is a variable.
CalculateDrawAspectRatioDivisions ==
    IF g_ActiveConfig.aspect_mode = "Stretch"
    THEN <<Division(165, ToFloat(m_backbuffer_height))>>
    ELSE <<>>

\* The divisions of ApplyStandardAspectCrop(width, height).
ApplyStandardAspectCropDivisions(width, height) ==
    IF ~g_ActiveConfig.bCrop \/ g_ActiveConfig.aspect_mode = "Stretch"
    THEN <<>>
    ELSE LET expected_aspect == IF IsWide THEN Fin(16, 9) ELSE Fin(4, 3)
         IN  <<Division(258, height)>> \o
             (IF FGreater(FDiv(width, height), expected_aspect)
              THEN <<>> ELSE <<Division(273, expected_aspect)>>)

\* std::ceil(draw_width) - static_cast<int>(std::ceil(draw_width)) % 4
RoundedDownTo4(x) == {FSub(FCeil(x), ToFloat(CRem(c, 4))) : c \in CastInt(FCeil(x))}

\* The four assignments to m_target_rectangle at the end of
\* UpdateDrawRectangle.
TargetRectangles(win_width, win_height, draw_width, draw_height) ==
    LET half(x) == FDiv(x, Fin(2, 1))
    IN  {Rect(left, top, IntAdd(left, width), IntAdd(top, height)) :
            left \in CastInt(FRound(FSub(half(win_width), half(draw_width)))),
            top \in CastInt(FRound(FSub(half(win_height), half(draw_height)))),
            width \in CastInt(draw_width),
            height \in CastInt(draw_height)}

\* UpdateDrawRectangle, if (g_ActiveConfig.bWidescreenHack) {...} else {...}:
\* the values left in g_Config.fAspectRatioHackW and fAspectRatioHackH.
AspectRatioHack(draw_aspect_ratio) ==
    LET one == Fin(1, 1)
        source_aspect == IF vi.widescreen THEN AspectToWidescreen(vi.aspect_ratio)
                         ELSE vi.aspect_ratio
        adjust == FDiv(source_aspect, draw_aspect_ratio)
    IN  IF g_ActiveConfig.bWidescreenHack
        THEN IF FGreater(adjust, one)
             THEN [fAspectRatioHackW |-> one, fAspectRatioHackH |-> FDiv(one, adjust)]
             ELSE [fAspectRatioHackW |-> adjust, fAspectRatioHackH |-> one]
        ELSE [fAspectRatioHackW |-> one, fAspectRatioHackH |-> one]

\* The divisions of that statement.
AspectRatioHackDivisions(draw_aspect_ratio) ==
    LET source_aspect == IF vi.widescreen THEN AspectToWidescreen(vi.aspect_ratio)
                         ELSE vi.aspect_ratio
        adjust == FDiv(source_aspect, draw_aspect_ratio)
    IN  IF g_ActiveConfig.bWidescreenHack
        THEN <<Division(292, draw_aspect_ratio)>> \o
             (IF FGreater(adjust, Fin(1, 1)) THEN <<Division(297, adjust)>> ELSE <<>>)
        ELSE <<>>

\* UpdateDrawRectangle, "scale the picture to fit the rendering window":
\* draw_width and draw_height after the if, and the divisions performed.
ScaleToWindow(draw_width, draw_height, crop_width, crop_height, win_width, win_height) ==
    IF FGeq(FDiv(win_width, win_height), FDiv(crop_width, crop_height))
    THEN [draw_width |-> FMul(draw_width, FDiv(win_height, crop_height)),
          draw_height |-> FMul(draw_height, FDiv(win_height, crop_height)),
          divisions |-> <<Division(325, win_height), Division(325, crop_height),
                          Division(328, crop_height), Division(329, crop_height),
                          Division(330, crop_height)>>]
    ELSE [draw_width |-> FMul(draw_width, FDiv(win_width, crop_width)),
          draw_height |-> FMul(draw_height, FDiv(win_width, crop_width)),
          divisions |-> <<Division(325, win_height), Division(325, crop_height),
                          Division(336, crop_width), Division(337, crop_width),
                          Division(338, crop_width)>>]

\* UpdateDrawRectangle from the scaled picture on: the rounding to multiples
\* of 4 and the assignments to m_target_rectangle.  (Here and below a value
\* computed once by the code is bound once, as the element of a singleton.)
DrawRectangles(draw_aspect_ratio, scaled, win_width, win_height) ==
    {[target |-> target, hack |-> hack, adjustment |-> adjustment,
      divisions |-> divisions] :
        target \in UNION {TargetRectangles(win_width, win_height, draw_width,
                                           draw_height) :
                             draw_width \in RoundedDownTo4(scaled.draw_width),
                             draw_height \in RoundedDownTo4(scaled.draw_height)},
        hack \in {AspectRatioHack(draw_aspect_ratio)},
        adjustment \in {FDiv(draw_aspect_ratio, FDiv(win_width, win_height))},
        divisions \in
            {CalculateDrawAspectRatioDivisions \o
             AspectRatioHackDivisions(draw_aspect_ratio) \o
             <<Division(319, win_height), Division(319, FDiv(win_width, win_height))>> \o
             ApplyStandardAspectCropDivisions(draw_aspect_ratio, Fin(1, 1)) \o
             scaled.divisions}}

\* UpdateDrawRectangle from the crop on.
DrawRectanglesCropped(draw_aspect_ratio, crop, win_width, win_height) ==
    UNION {DrawRectangles(draw_aspect_ratio, scaled, win_width, win_height) :
             scaled \in {ScaleToWindow(draw_aspect_ratio, Fin(1, 1), crop[1], crop[2],
                                       win_width, win_height)}}

\* UpdateDrawRectangle from the draw aspect ratio on.
DrawRectanglesOfAspect(draw_aspect_ratio) ==
    UNION {DrawRectanglesCropped(draw_aspect_ratio, crop, ToFloat(m_backbuffer_width),
                                 ToFloat(m_backbuffer_height)) :
             crop \in {ApplyStandardAspectCrop(draw_aspect_ratio, Fin(1, 1))}}

\* void Presenter::UpdateDrawRectangle(): what the builds can leave in
\* m_target_rectangle, g_Config.fAspectRatioHackW/H and the controller
\* interface, and the divisions performed on the way (those by the literal
\* 2.0 left out).
UpdateDrawRectangle ==
    UNION {DrawRectanglesOfAspect(draw_aspect_ratio) :
             draw_aspect_ratio \in {CalculateDrawAspectRatio}}

\* A call of UpdateDrawRectangle that leaves out: the members are written and
\* the call is entered in the list of layout calls.
LayoutCall(out) ==
    [width |-> m_backbuffer_width, height |-> m_backbuffer_height,
     divisions |-> out.divisions]

\* The sizes of the surface at Initialize and of the later notifications.
Surfaces == {<<640, 400>>}
BackbufferSizes == {<<640, 400>>, <<320, 240>>}
XfbSizes == {<<640, 480>>}

\* bool Presenter::Initialize(): UpdateDrawRectangle, the post processor and
\* the UI are made (their failure is not modelled), and with a surface
\* SetBackbuffer(g_gfx->GetSurfaceInfo()), which calls UpdateDrawRectangle
\* again.
Initialize ==
    /\ ~m_onscreen_ui
    /\ m_onscreen_ui' = TRUE
    /\ UNCHANGED <<g_ActiveConfig, vi, g_gfx, m_last_window_request_width,
                   m_last_window_request_height, host_requests>>
    /\ \E first \in UpdateDrawRectangle :
          IF g_gfx.headless
          THEN /\ UNCHANGED <<m_backbuffer_width, m_backbuffer_height>>
               /\ m_target_rectangle' = first.target
               /\ g_Config' = first.hack
               /\ aspect_ratio_adjustment' = first.adjustment
               /\ ret' = [fn |-> "Initialize", layout |-> <<LayoutCall(first)>>]
          ELSE /\ m_backbuffer_width' = g_gfx.surface[1]
               /\ m_backbuffer_height' = g_gfx.surface[2]
               /\ \E second \in UpdateDrawRectangle' :
                     /\ m_target_rectangle' = second.target
                     /\ g_Config' = second.hack
                     /\ aspect_ratio_adjustment' = second.adjustment
                     /\ ret' = [fn |-> "Initialize",
                                layout |-> <<LayoutCall(first), LayoutCall(second)'>>]

\* void Presenter::SetBackbuffer(int backbuffer_width, int backbuffer_height)
SetBackbuffer(backbuffer_width, backbuffer_height) ==
    /\ m_onscreen_ui
    /\ m_backbuffer_width' = backbuffer_width
    /\ m_backbuffer_height' = backbuffer_height
    /\ UNCHANGED <<g_ActiveConfig, vi, g_gfx, m_onscreen_ui, m_last_window_request_width,
                   m_last_window_request_height, host_requests>>
    /\ \E out \in UpdateDrawRectangle' :
          /\ m_target_rectangle' = out.target
          /\ g_Config' = out.hack
          /\ aspect_ratio_adjustment' = out.adjustment
          /\ ret' = [fn |-> "SetBackbuffer", layout |-> <<LayoutCall(out)'>>]

\* void Presenter::Present(): with a surface, UpdateDrawRectangle, the XFB is
\* drawn into the target rectangle (AdjustRectanglesToFitBounds on copies; the
\* drawing is not modelled) and SetWindowSize(m_xfb_rect.GetWidth(),
\* m_xfb_rect.GetHeight()); headless, nothing of this.
Present(xfb_width, xfb_height) ==
    /\ m_onscreen_ui
    /\ UNCHANGED <<g_ActiveConfig, vi, g_gfx, m_onscreen_ui, m_backbuffer_width,
                   m_backbuffer_height>>
    /\ IF g_gfx.headless
       THEN /\ ret' = [fn |-> "Present", layout |-> <<>>]
            /\ UNCHANGED <<m_target_rectangle, g_Config, aspect_ratio_adjustment,
                           m_last_window_request_width, m_last_window_request_height,
                           host_requests>>
       ELSE /\ Len(host_requests) < MaxRequests
            /\ \E draw \in UpdateDrawRectangle :
                  /\ m_target_rectangle' = draw.target
                  /\ g_Config' = draw.hack
                  /\ aspect_ratio_adjustment' = draw.adjustment
                  /\ ret' = [fn |-> "Present", layout |-> <<LayoutCall(draw)>>]
            /\ \E out \in CalculateOutputDimensions(xfb_width, xfb_height) :
                  IF SameAsLastRequest(out)
                  THEN UNCHANGED <<m_last_window_request_width,
                                   m_last_window_request_height, host_requests>>
                  ELSE /\ m_last_window_request_width' = out[1]
                       /\ m_last_window_request_height' = out[2]
                       /\ host_requests' = Append(host_requests, out)

\* The presenter as constructed, before Initialize: no backbuffer size yet,
\* any configuration, any game, headless or with a surface.
InitLayout ==
    /\ \/ InitLayoutVars(TRUE, <<0, 0>>)
       \/ \E surface \in Surfaces : InitLayoutVars(FALSE, surface)
    /\ g_ActiveConfig \in [aspect_mode : AspectModes, bCrop : BOOLEAN,
                           stereo_mode : {"Off"}, bWidescreenHack : BOOLEAN]
    /\ vi \in [aspect_ratio : AspectRatios, widescreen : BOOLEAN]
    /\ m_backbuffer_width = 0
    /\ m_backbuffer_height = 0
    /\ m_last_window_request_width = 0
    /\ m_last_window_request_height = 0
    /\ host_requests = <<>>
    /\ ret = NoCall

NextLayout ==
    \/ Initialize /\ UNCHANGED <<osd_vars, thread_vars>>
    \/ \E size \in BackbufferSizes :
          SetBackbuffer(size[1], size[2]) /\ UNCHANGED <<osd_vars, thread_vars>>
    \/ \E xfb \in XfbSizes :
          Present(xfb[1], xfb[2]) /\ UNCHANGED <<osd_vars, thread_vars>>

Next ==
    \/ \E type \in MessageTypes, message \in Texts, ms \in Durations, argb \in Colors :
          AddTypedMessage(type, message, ms, argb) /\ UNCHANGED <<thread_vars, presenter_vars>>
    \/ \E message \in UntypedTexts, ms \in Durations, argb \in Colors :
          AddMessage(message, ms, argb) /\ UNCHANGED <<thread_vars, presenter_vars>>
    \/ DrawMessages /\ UNCHANGED <<thread_vars, presenter_vars>>
    \/ ClearMessages /\ UNCHANGED <<thread_vars, presenter_vars>>
    \/ \E d \in TickSteps : Tick(d) /\ UNCHANGED <<thread_vars, presenter_vars>>

Init ==
    /\ InitOSD
    /\ InitThreads
    /\ InitPresenter

Spec == Init /\ [][Next]_vars
SpecThreads == Init /\ [][NextThreads]_vars

\* The message queue with a clock that keeps running and a video thread that
\* keeps calling DrawMessages every frame.
LiveTexts == {"t1"}
LiveTypes == {"NetPlayPing", "Typeless"}
LiveSteps == {4999}
DrawFrame == DrawMessages /\ UNCHANGED <<thread_vars, presenter_vars>>
ClockRuns == \E d \in LiveSteps : Elapse(d) /\ UNCHANGED <<thread_vars, presenter_vars>>

NextLive ==
    \/ \E type \in LiveTypes, message \in LiveTexts, ms \in Durations, argb \in Colors :
          AddTypedMessage(type, message, ms, argb) /\ UNCHANGED <<thread_vars, presenter_vars>>
    \/ DrawFrame
    \/ ClearMessages /\ UNCHANGED <<thread_vars, presenter_vars>>
    \/ ClockRuns

SpecLive == Init /\ [][NextLive]_vars /\ WF_vars(DrawFrame) /\ WF_vars(ClockRuns)

\* The presenter alone, from any configuration and backbuffer.
InitGeometry ==
    /\ InitOSD /\ MAIN_OSD_MESSAGES
    /\ InitThreads
    /\ InitAnyPresenter

SpecWindow == InitGeometry /\ [][NextWindow]_vars
SpecGeometry == InitGeometry /\ [][NextGeometry]_vars

\* The presenter from its construction on.
InitPresenterLayout ==
    /\ InitOSD /\ MAIN_OSD_MESSAGES
    /\ InitThreads
    /\ InitLayout

SpecLayout == InitPresenterLayout /\ [][NextLayout]_vars

(***************************************************************************)
(* Claims about the message queue, checked under Spec.                     *)
(***************************************************************************)
InSeq(x, seq) == \E i \in 1..Len(seq) : seq[i] = x
OfType(msgs, type) == SelectSeq(msgs, LAMBDA e : e.type = type)
Undrawn(seq) == [i \in 1..Len(seq) |-> [seq[i] EXCEPT !.ever_drawn = FALSE]]

AtMostOnePerType ==
    \A type \in MessageTypes \ {"Typeless"} : Len(OfType(s_messages, type)) <= 1

\* C1: the multimap never holds two messages of one non-Typeless type, and
\* when AddTypedMessage(C, t2) directly follows AddTypedMessage(C, t1) the
\* only entry of type C is the new message carrying t2.
C1_OneMessagePerType ==
    /\ []AtMostOnePerType
    /\ [][(/\ last_call.op = "AddTypedMessage"
           /\ last_call'.op = "AddTypedMessage"
           /\ last_call'.args.type = last_call.args.type)
          => LET live == OfType(s_messages', last_call'.args.type)
             IN  /\ Len(live) = 1
                 /\ live[1].text = last_call'.args.text
                 /\ live[1].timer = 0
                 /\ ~live[1].ever_drawn]_vars

\* C1 witness: AddTypedMessage(C, "t2") has just replaced the fresh message
\* "t1" of the same non-Typeless type C, beside a Typeless message.
C1_Witness ==
    /\ last_call.op = "AddTypedMessage"
    /\ last_call.args.type # "Typeless"
    /\ last_call.args.text = "t2"
    /\ Len(erased) = 1
    /\ erased[1].type = last_call.args.type
    /\ erased[1].text = "t1"
    /\ erased[1].timer = 0
    /\ Len(OfType(s_messages, "Typeless")) = 1

\* C2 as stated: a message of duration 0 that DrawMessages erases has been
\* drawn.
C2_ZeroDurationDrawnBeforeErased ==
    last_call.op = "DrawMessages" =>
        \A i \in 1..Len(erased) : erased[i].duration = 0 => erased[i].ever_drawn

\* C2 amended: a message of duration 0 that DrawMessages erases has been
\* drawn, or at least MESSAGE_DROP_TIME ms have passed since it was added.
C2_ZeroDurationDrawnOrDropped ==
    last_call.op = "DrawMessages" =>
        \A i \in 1..Len(erased) :
            erased[i].duration = 0 =>
                erased[i].ever_drawn \/ erased[i].timer >= MESSAGE_DROP_TIME

\* C2 witness: a pass erased a drawn message of duration 0 before the drop time.
C2_Witness ==
    /\ last_call.op = "DrawMessages"
    /\ \E i \in 1..Len(erased) :
          /\ erased[i].duration = 0
          /\ erased[i].ever_drawn
          /\ erased[i].timer < MESSAGE_DROP_TIME

\* C3 as stated: a pass of DrawMessages erases a message never drawn exactly
\* when its elapsed time is >= 5000 ms, whatever its duration.
C3_UndrawnErasedAtDropTime ==
    [][last_call'.op = "DrawMessages" =>
        \A i \in 1..Len(s_messages) :
            ~s_messages[i].ever_drawn =>
                (InSeq(s_messages[i], erased') <=>
                    s_messages[i].timer >= MESSAGE_DROP_TIME)]_vars

\* C3 amended: a pass of DrawMessages erases a message never drawn exactly
\* when its elapsed time is >= its duration + 5000 ms.
C3_UndrawnErasedAtDurationPlusDropTime ==
    [][last_call'.op = "DrawMessages" =>
        \A i \in 1..Len(s_messages) :
            ~s_messages[i].ever_drawn =>
                (InSeq(s_messages[i], erased') <=>
                    s_messages[i].timer >=
                        s_messages[i].duration + MESSAGE_DROP_TIME)]_vars

\* C3 witness: a pass erased a message never drawn whose duration is not 0,
\* and kept one never drawn that is older than 5000 ms.
C3_Witness ==
    /\ last_call.op = "DrawMessages"
    /\ \E i \in 1..Len(erased) : ~erased[i].ever_drawn /\ erased[i].duration > 0
    /\ \E i \in 1..Len(s_messages) :
          ~s_messages[i].ever_drawn /\ s_messages[i].timer >= MESSAGE_DROP_TIME

\* C9: AddMessage leaves every entry as it was and adds exactly one entry,
\* of type Typeless.
C9_AddMessageOnlyAdds ==
    [][last_call'.op = "AddMessage" =>
        /\ Len(s_messages') = Len(s_messages) + 1
        /\ \E i \in 1..Len(s_messages') :
              /\ s_messages'[i].type = "Typeless"
              /\ EraseAt(s_messages', i) = s_messages]_vars

\* C9 witness: AddMessage has run on a multimap that held a Typeless
\* message, and both are there.
C9_Witness ==
    /\ last_call.op = "AddMessage"
    /\ Len(OfType(s_messages, "Typeless")) = 2
    /\ \E i \in 1..Len(s_messages) : s_messages[i].timer > 0

\* C10: a pass of DrawMessages erases exactly the messages whose remaining
\* time (duration - elapsed) is <= 0 and that have been drawn or are overdue
\* by at least 5000 ms; the others stay, in their order.
C10_ErasedIffExpiredAndDrawnOrOverdue ==
    [][last_call'.op = "DrawMessages" =>
        LET Gone(e) == /\ e.duration - e.timer <= 0
                       /\ (e.ever_drawn \/ e.timer - e.duration >= 5000)
            Stays(e) == ~Gone(e)
        IN  /\ erased' = SelectSeq(s_messages, Gone)
            /\ Undrawn(s_messages') = Undrawn(SelectSeq(s_messages, Stays))]_vars

\* C10 witness: a pass erased a message and kept one that was never drawn
\* and is overdue by less than 5000 ms.
C10_Witness ==
    /\ last_call.op = "DrawMessages"
    /\ erased # <<>>
    /\ \E i \in 1..Len(s_messages) :
          /\ ~s_messages[i].ever_drawn
          /\ s_messages[i].duration - s_messages[i].timer <= 0

\* C11 as stated: when a pass of DrawMessages returns, every message it
\* left in s_messages has ever_drawn = true.
C11_SurvivorsEverDrawn ==
    last_call.op = "DrawMessages" =>
        \A i \in 1..Len(s_messages) : s_messages[i].ever_drawn

\* C11: when a pass of DrawMessages returns and Config::MAIN_OSD_MESSAGES was
\* on, every message it left in s_messages has ever_drawn = true; when the
\* setting was off, every message it left is as it was before the pass
\* (ever_drawn included).
C11_SurvivorsEverDrawnWhenEnabled ==
    [][last_call'.op = "DrawMessages" =>
        \A i \in 1..Len(s_messages') :
            IF MAIN_OSD_MESSAGES
            THEN s_messages'[i].ever_drawn
            ELSE InSeq(s_messages'[i], s_messages)]_vars

\* C11 witness: with the setting on, a pass erased a message and left one,
\* which is marked drawn.
C11_Witness ==
    /\ last_call.op = "DrawMessages"
    /\ MAIN_OSD_MESSAGES
    /\ erased # <<>>
    /\ s_messages # <<>>
    /\ \A i \in 1..Len(s_messages) : s_messages[i].ever_drawn

(***************************************************************************)
(* Claim about the mutex, checked under SpecThreads.                       *)
(***************************************************************************)
\* Thread t is between the lock_guard and the end of its scope.
InMessageSet(t) == pc[t] \in {"erase", "emplace", "loop", "clear", "unlock"}

\* What the pass of thread t makes of the messages ms when nothing else
\* touches them, from turn it of the loop on.
RestOfPass(t, ms, it) ==
    DrawLoop([msgs |-> ms, it |-> it, erased |-> <<>>], frame[t].draw_messages).msgs

\* C4: a thread is inside the message set only while it owns
\* s_messages_mutex, so no two threads are inside at once; and a pass of
\* DrawMessages is atomic: at every turn of its loop, and when it ends, the
\* messages are what the pass alone makes of the messages found at the lock.
C4_MutexExcludesAndPassIsAtomic ==
    /\ \A t \in Threads : InMessageSet(t) => s_messages_mutex = t
    /\ \A t, u \in Threads : InMessageSet(t) /\ InMessageSet(u) => t = u
    /\ \A t \in Threads :
          frame[t].op = "DrawMessages" /\ InMessageSet(t) =>
              RestOfPass(t, s_messages, IF pc[t] = "loop" THEN frame[t].it
                                        ELSE Len(s_messages) + 1)
                  = RestOfPass(t, frame[t].at_lock, 1)

\* C4 witness: one thread is in the middle of a pass that has erased a
\* message while the other waits for the mutex with a message to add.
C4_Witness ==
    \E t, u \in Threads :
        /\ pc[t] = "loop"
        /\ frame[t].it > 1
        /\ Len(s_messages) < Len(frame[t].at_lock)
        /\ pc[u] = "lock"

(***************************************************************************)
(* Claim about SetWindowSize, checked under SpecWindow.                    *)
(***************************************************************************)
LastRequest == <<m_last_window_request_width, m_last_window_request_height>>

\* C5: a call of SetWindowSize forwards the computed size to the host if and
\* only if it differs from the remembered last request; no two consecutive
\* forwarded requests carry the same size; and the remembered size is that
\* of the most recently forwarded request (0 x 0 while there is none).
C5_ForwardedIffDifferent ==
    /\ [][ret'.fn = "SetWindowSize" =>
            IF ret'.out # LastRequest
            THEN host_requests' = Append(host_requests, ret'.out)
            ELSE host_requests' = host_requests]_vars
    /\ [](\A i \in 1..Len(host_requests) - 1 : host_requests[i] # host_requests[i + 1])
    /\ [](LastRequest = IF host_requests = <<>> THEN <<0, 0>>
                        ELSE host_requests[Len(host_requests)])

\* C5 witness: after two forwarded requests a call computed the size of the
\* last one and was not forwarded.
C5_Witness ==
    /\ ret.fn = "SetWindowSize"
    /\ ~ret.forwarded
    /\ Len(host_requests) = 2
    /\ ret.out = host_requests[2]

(***************************************************************************)
(* Claims about the geometry functions, checked under SpecGeometry.        *)
(***************************************************************************)
\* C6: AdjustRectanglesToFitBounds clamps each side of target on its own
\* (left and top to 0, right and bottom to fb_width and fb_height) and moves
\* the matching side of source inward by offset * source extent / target
\* extent, both extents those of the rectangles passed in; a side inside its
\* bound and its source side stay.  Target {-10,0,100,50}, source
\* {0,0,110,50}, bounds 200 x 200 give target {0,0,100,50}, source {10,0,110,50}.
C6_SidesClampedIndependently ==
    ret.fn = "AdjustRectanglesToFitBounds" =>
        LET t == ret.target
            s == ret.source
            tw == GetWidth(t)
            th == GetHeight(t)
            sw == GetWidth(s)
            sh == GetHeight(s)
        IN  /\ ret.out.target =
                 Rect(IF t.left < 0 THEN 0 ELSE t.left,
                      IF t.top < 0 THEN 0 ELSE t.top,
                      IF t.right > ret.fb_width THEN ret.fb_width ELSE t.right,
                      IF t.bottom > ret.fb_height THEN ret.fb_height ELSE t.bottom)
            /\ ret.out.source =
                 Rect(IF t.left < 0 THEN s.left + ((-t.left) * sw) \div tw ELSE s.left,
                      IF t.top < 0 THEN s.top + ((-t.top) * sh) \div th ELSE s.top,
                      IF t.right > ret.fb_width
                      THEN s.right - ((t.right - ret.fb_width) * sw) \div tw ELSE s.right,
                      IF t.bottom > ret.fb_height
                      THEN s.bottom - ((t.bottom - ret.fb_height) * sh) \div th ELSE s.bottom)
            /\ (t = Rect(-10, 0, 100, 50) /\ s = Rect(0, 0, 110, 50)
                   /\ ret.fb_width = 200 /\ ret.fb_height = 200
                => ret.out = [target |-> Rect(0, 0, 100, 50),
                              source |-> Rect(10, 0, 110, 50)])

\* C6 witness: a target that left all four bounds was adjusted.
C6_Witness ==
    /\ ret.fn = "AdjustRectanglesToFitBounds"
    /\ ret.target.left < 0 /\ ret.target.top < 0
    /\ ret.target.right > ret.fb_width /\ ret.target.bottom > ret.fb_height
    /\ GetWidth(ret.source) # GetWidth(ret.target)

\* C7: CalculateOutputDimensions returns a width and a height that are
\* multiples of 4 and >= 0, for every requested size and configuration, and
\* changes no state of the presenter.
C7_OutputMultipleOf4AndNonNegative ==
    [][ret'.fn = "CalculateOutputDimensions" =>
        /\ ret'.out[1] % 4 = 0 /\ ret'.out[1] >= 0
        /\ ret'.out[2] % 4 = 0 /\ ret'.out[2] >= 0
        /\ UNCHANGED presenter_state]_vars

\* C8: in top-and-bottom mode ConvertStereoRectangle moves top and bottom
\* inward by height / 4 and returns that rectangle shifted by
\* -(backbuffer height / 4) and +(backbuffer height / 4) vertically, left and
\* right as they were; in side-by-side mode the same horizontally with the
\* backbuffer width; the two rectangles have the same size.  TAB, backbuffer
\* height 400, {0,0,640,400} give {0,0,640,200} and {0,200,640,400}.
C8_StereoSplit ==
    ret.fn = "ConvertStereoRectangle" =>
        LET rc == ret.rc
            left_rc == ret.out[1]
            right_rc == ret.out[2]
            qh == CDiv(rc.bottom - rc.top, 4)
            qw == CDiv(rc.right - rc.left, 4)
            bh == m_backbuffer_height \div 4
            bw == m_backbuffer_width \div 4
        IN  /\ g_ActiveConfig.stereo_mode = "TAB" =>
                 /\ left_rc = Rect(rc.left, rc.top + qh - bh, rc.right, rc.bottom - qh - bh)
                 /\ right_rc = Rect(rc.left, rc.top + qh + bh, rc.right, rc.bottom - qh + bh)
            /\ g_ActiveConfig.stereo_mode = "SBS" =>
                 /\ left_rc = Rect(rc.left + qw - bw, rc.top, rc.right - qw - bw, rc.bottom)
                 /\ right_rc = Rect(rc.left + qw + bw, rc.top, rc.right - qw + bw, rc.bottom)
            /\ left_rc.right - left_rc.left = right_rc.right - right_rc.left
            /\ left_rc.bottom - left_rc.top = right_rc.bottom - right_rc.top
            /\ (g_ActiveConfig.stereo_mode = "TAB" /\ m_backbuffer_height = 400
                   /\ rc = Rect(0, 0, 640, 400)
                => left_rc = Rect(0, 0, 640, 200) /\ right_rc = Rect(0, 200, 640, 400))

\* C8 witness: the example, in top-and-bottom mode.
C8_Witness ==
    /\ ret.fn = "ConvertStereoRectangle"
    /\ g_ActiveConfig.stereo_mode = "TAB"
    /\ m_backbuffer_height = 400
    /\ ret.rc = Rect(0, 0, 640, 400)
    /\ ret.out = <<Rect(0, 0, 640, 200), Rect(0, 200, 640, 400)>>

(***************************************************************************)
(* Claim about the draw rectangle, checked under SpecLayout.               *)
(***************************************************************************)
\* C12: in the call of UpdateDrawRectangle that Initialize makes before any
\* backbuffer size is known (m_backbuffer_width = m_backbuffer_height = 0),
\* no division of UpdateDrawRectangle or of CalculateDrawAspectRatio has a
\* zero divisor.
C12_NoDivisionByZeroBeforeBackbuffer ==
    ret.fn = "Initialize" =>
        LET first == ret.layout[1]
        IN  (first.width = 0 /\ first.height = 0) =>
                \A j \in 1..Len(first.divisions) : ~IsZero(first.divisions[j].divisor)


(***************************************************************************)
(* Claim about the life of a message, checked under SpecLive.              *)
(***************************************************************************)
\* C13: while DrawMessages keeps being called and the clock keeps running,
\* the message of a type that is in s_messages is eventually erased by a pass
\* of DrawMessages, unless ClearMessages or an AddTypedMessage of its type
\* removes it first, and this with on-screen messages on or off; and a pass
\* that runs when duration + 5000 ms or more have elapsed since a message was
\* created does not leave it in s_messages.
C13_EveryMessageEventuallyErased ==
    /\ \A type \in LiveTypes :
          (OfType(s_messages, type) # <<>>)
          ~> \/ last_call.op = "DrawMessages" /\ OfType(erased, type) # <<>>
             \/ last_call.op = "ClearMessages"
             \/ last_call.op = "AddTypedMessage" /\ last_call.args.type = type
    /\ [][last_call'.op = "DrawMessages" =>
            /\ \A i \in 1..Len(s_messages) :
                  s_messages[i].timer >= s_messages[i].duration + 5000
                      => InSeq(s_messages[i], erased')
            /\ \A i \in 1..Len(s_messages') :
                  s_messages'[i].timer < s_messages'[i].duration + 5000]_vars

\* C13 witness: with on-screen messages off, a pass has erased a message
\* that was never drawn, duration + 5000 ms after its creation.
C13_Witness ==
    /\ last_call.op = "DrawMessages"
    /\ ~MAIN_OSD_MESSAGES
    /\ \E j \in 1..Len(erased) :
          /\ ~erased[j].ever_drawn
          /\ erased[j].duration = 4999
          /\ erased[j].timer = erased[j].duration + 5000

=============================================================================
